---- MODULE Spec2Model ----
(***************************************************************************)
(* Interview session of frontend/src/pages/InterviewRoom.tsx: the answer   *)
(* scorer (evaluateAnswer), the report aggregator (endInterview) and the   *)
(* event handlers and timers of the React component that drive them.       *)
(*                                                                         *)
(* Conventions.                                                            *)
(*  - A string is a sequence of one-character strings.                     *)
(*  - A score is kept in tenths: the JavaScript number 6.3 is the integer  *)
(*    63.  Rationals are numerator/denominator pairs of integers.          *)
(*  - A handler of a render closes over the state of that render.  A timer *)
(*    callback therefore carries the state its handler saw (a snapshot),   *)
(*    while the functional setters (prev => ...) act on the current state. *)
(***************************************************************************)
EXTENDS FiniteSets, Integers, Sequences, TLC

\* ------------------------------------------------------------------ bounds
MaxFragments == 3      \* speech fragments making up a scored answer
MaxPadUnits == 4       \* filler added to an answer, in units of PadUnit words
PadUnit == 27          \* words per unit of filler

\* ----------------------------------------------------------------- strings
SP == " "
Whitespace == {" ", "\t", "\n"}

UpperAlpha ==
  <<"A","B","C","D","E","F","G","H","I","J","K","L","M",
    "N","O","P","Q","R","S","T","U","V","W","X","Y","Z">>
LowerAlpha ==
  <<"a","b","c","d","e","f","g","h","i","j","k","l","m",
    "n","o","p","q","r","s","t","u","v","w","x","y","z">>

\* String.prototype.toLowerCase, one character
LowerOf ==
  [c \in {UpperAlpha[i] : i \in 1..26} |->
     LowerAlpha[CHOOSE i \in 1..26 : UpperAlpha[i] = c]]
lowerChar(c) == IF c \in DOMAIN LowerOf THEN LowerOf[c] ELSE c

\* String.prototype.toLowerCase
toLowerCase(s) == [i \in 1..Len(s) |-> lowerChar(s[i])]

\* String.prototype.trim: drop the whitespace at both ends
trim(s) ==
  LET keep == {i \in 1..Len(s) : s[i] \notin Whitespace}
  IN  IF keep = {} THEN <<>>
      ELSE SubSeq(s, CHOOSE i \in keep : \A j \in keep : i <= j,
                     CHOOSE i \in keep : \A j \in keep : i >= j)

\* String.prototype.includes: w occurs in s as a substring
includes(s, w) ==
  \E i \in 0..(Len(s) - Len(w)) : \A k \in 1..Len(w) : s[i + k] = w[k]

\* answer.split(' ').length: one more than the number of single spaces
splitLength(s) == 1 + Cardinality({i \in 1..Len(s) : s[i] = SP})

\* the concatenation of a sequence of strings
RECURSIVE Flatten(_)
Flatten(ss) == IF ss = <<>> THEN <<>> ELSE Head(ss) \o Flatten(Tail(ss))

\* a null or undefined answer
Null == <<"null">>

\* ----------------------------------------------------------- Math helpers
Min(a, b) == IF a <= b THEN a ELSE b
Max(a, b) == IF a >= b THEN a ELSE b

\* Math.round of the non-negative rational n/d.  JavaScript rounds the
\* double it is given half up; the double is the rounded result of the
\* preceding float operations, so when n/d is exactly half way between two
\* integers the double lies at or just beside the midpoint and either
\* neighbour comes out (0.4*0 + 0.3*0.5 + 0.3*4 gives 1.3499999999999999).
MathRound(n, d) ==
  LET up == (2 * n + d) \div (2 * d)
  IN  IF (2 * n + d) % (2 * d) = 0 THEN {up - 1, up} ELSE {up}

\* -------------------------------------------------------- evaluateAnswer
Connectives ==
  { <<"f","o","r"," ","e","x","a","m","p","l","e">>,
    <<"s","u","c","h"," ","a","s">>,
    <<"b","e","c","a","u","s","e">>,
    <<"t","h","e","r","e","f","o","r","e">> }
EnumerationMarkers ==
  { <<"f","i","r","s","t">>,
    <<"s","e","c","o","n","d">>,
    <<"t","h","i","r","d">>,
    <<"s","t","e","p">> }

MinAnswerLength == 5

\* the early return without the trim
tooShort_untrimmed(answer) ==
  answer = Null \/ answer = <<>> \/ Len(answer) < MinAnswerLength

\* the early return with <= in place of <
tooShort_inclusive(answer) ==
  answer = Null \/ answer = <<>> \/ Len(trim(answer)) <= MinAnswerLength

\* the early return of evaluateAnswer
tooShort(answer) ==
  answer = Null \/ answer = <<>> \/ Len(trim(answer)) < MinAnswerLength

\* expectedKeywords.filter(kw => answerLower.includes(kw.toLowerCase())).length
keywordMatches(answer, expectedKeywords) ==
  LET answerLower == toLowerCase(answer)
  IN  Cardinality({k \in 1..Len(expectedKeywords) :
                     includes(answerLower, toLowerCase(expectedKeywords[k]))})

\* question?.expected_keywords || [] ; a question is <<q>>, null is <<>>
expectedKeywords(question) ==
  IF question = <<>> THEN <<>> ELSE question[1].expected_keywords

\* keywordScore as the rational kwNum / kwDen
kwDen(question) ==
  IF Len(expectedKeywords(question)) > 0 THEN Len(expectedKeywords(question)) ELSE 1
kwNum(answer, question) ==
  IF Len(expectedKeywords(question)) > 0
  THEN keywordMatches(answer, expectedKeywords(question)) * 10
  ELSE 5

\* lengthScore = Math.min(10, wordCount / 10), in tenths
lengthTenths(answer) == Min(100, splitLength(answer))

\* the structure score started at 2
structureScore_fromTwo(answer) ==
  LET answerLower == toLowerCase(answer)
  IN  2 + (IF \E w \in Connectives : includes(answerLower, w) THEN 2 ELSE 0)
        + (IF \E w \in EnumerationMarkers : includes(answerLower, w) THEN 2 ELSE 0)
        + (IF splitLength(answer) >= 30 THEN 2 ELSE 0)

structureScore(answer) ==
  LET answerLower == toLowerCase(answer)
  IN  4 + (IF \E w \in Connectives : includes(answerLower, w) THEN 2 ELSE 0)
        + (IF \E w \in EnumerationMarkers : includes(answerLower, w) THEN 2 ELSE 0)
        + (IF splitLength(answer) >= 30 THEN 2 ELSE 0)

\* the weights of keywordScore and lengthScore exchanged
weightedNum_swapped(answer, question) ==
    30 * kwNum(answer, question)
  + 4 * lengthTenths(answer) * kwDen(question)
  + 30 * structureScore(answer) * kwDen(question)

\* keywordScore * 0.4 + lengthScore * 0.3 + structureScore * 0.3
\* as the rational weightedNum / weightedDen
weightedDen(question) == 100 * kwDen(question)
weightedNum(answer, question) ==
    40 * kwNum(answer, question)
  + 3 * lengthTenths(answer) * kwDen(question)
  + 30 * structureScore(answer) * kwDen(question)

\* Math.max(1, Math.min(10, x)) for x = n/d, as a numerator over d
clamp(n, d) == Max(d, Min(10 * d, n))

\* evaluateAnswer(answer, question): the scores (in tenths) the call can return
evaluateAnswer(answer, question) ==
  IF tooShort(answer) THEN {0}
  ELSE MathRound(10 * clamp(weightedNum(answer, question), weightedDen(question)),
                 weightedDen(question))

\* ------------------------------------------------------- report (endInterview)
\* one element of questionScores / allScores
Entry(idx, score, skipped) == [idx |-> idx, score |-> score, skipped |-> skipped]

\* the reconciliation loop: for (i = 0; i < questions.length; i++)
\*   if (!allScores.find(s => s.idx === i)) allScores.push({idx: i, score: 0, skipped: true})
RECURSIVE reconcile(_, _, _)
reconcile(allScores, i, n) ==
  IF i >= n THEN allScores
  ELSE IF \E k \in 1..Len(allScores) : allScores[k].idx = i
       THEN reconcile(allScores, i + 1, n)
       ELSE reconcile(Append(allScores, Entry(i, 0, TRUE)), i + 1, n)

\* the reconciliation loop started at i = 1
allScoresOf_fromOne(qScores, qs) == reconcile(qScores, 1, Len(qs))

\* allScores after the loop, from the questionScores and questions of the closure
allScoresOf(qScores, qs) == reconcile(qScores, 0, Len(qs))

answeredCount(allScores) == Cardinality({k \in 1..Len(allScores) : ~allScores[k].skipped})
skippedCount(allScores) == Cardinality({k \in 1..Len(allScores) : allScores[k].skipped})

\* allScores.reduce((sum, s) => sum + s.score, 0), in tenths
RECURSIVE sumScores(_)
sumScores(allScores) ==
  IF allScores = <<>> THEN 0 ELSE Head(allScores).score + sumScores(Tail(allScores))

\* the average taken over the answered questions only
overallScores_overAnswered(allScores, totalQuestions) ==
  IF answeredCount(allScores) > 0
  THEN MathRound(sumScores(allScores), answeredCount(allScores))
  ELSE {0}

\* the average taken over the entries of allScores
overallScores_overEntries(allScores, totalQuestions) ==
  IF Len(allScores) > 0 THEN MathRound(sumScores(allScores), Len(allScores)) ELSE {0}

\* overallScore = Math.round(avgScore * 10) with
\* avgScore = totalQuestions > 0 ? sum / totalQuestions : 0
overallScores(allScores, totalQuestions) ==
  IF totalQuestions > 0 THEN MathRound(sumScores(allScores), totalQuestions) ELSE {0}

\* questions[s.idx]?.question_type || 'general'
qTypeOf(idx, qs) ==
  IF idx + 1 \in 1..Len(qs) /\ qs[idx + 1].question_type # ""
  THEN qs[idx + 1].question_type
  ELSE "general"

\* the entries of allScores that fall into one category, in order
entriesOfType(allScores, qs, type) ==
  SelectSeq(allScores, LAMBDA s : qTypeOf(s.idx, qs) = type)

\* the keys of categoryScores, in insertion order (Object.entries order)
RECURSIVE categoryOrder(_, _, _)
categoryOrder(allScores, qs, seen) ==
  IF allScores = <<>> THEN seen
  ELSE LET t == qTypeOf(Head(allScores).idx, qs)
       IN  IF \E k \in 1..Len(seen) : seen[k] = t
           THEN categoryOrder(Tail(allScores), qs, seen)
           ELSE categoryOrder(Tail(allScores), qs, Append(seen, t))

\* the sum of each category divided by the number of questions of the list
catAvgs_overTotal(allScores, qs) ==
  LET order == categoryOrder(allScores, qs, <<>>)
      types == {order[k] : k \in 1..Len(order)}
      outcomes(t) == MathRound(sumScores(entriesOfType(allScores, qs, t)), Max(1, Len(qs)))
  IN  {[t \in types |-> CHOOSE v \in outcomes(t) : \A u \in outcomes(t) : u <= v]}

\* the maps catAvg can be: Math.round((sum / scores.length) * 10) per category
catAvgs(allScores, qs) ==
  LET order == categoryOrder(allScores, qs, <<>>)
      types == {order[k] : k \in 1..Len(order)}
      outcomes(t) == MathRound(sumScores(entriesOfType(allScores, qs, t)),
                               Len(entriesOfType(allScores, qs, t)))
      high(t) == CHOOSE v \in outcomes(t) : \A u \in outcomes(t) : u <= v
      ties == {t \in types : Cardinality(outcomes(t)) > 1}
  IN  {[t \in types |-> IF t \in down THEN high(t) - 1 ELSE high(t)] : down \in SUBSET ties}

\* the grade with every threshold exclusive
gradeOf_strict(overallScore) ==
  IF overallScore > 90 THEN "A+"
  ELSE IF overallScore > 80 THEN "A"
  ELSE IF overallScore > 70 THEN "B+"
  ELSE IF overallScore > 60 THEN "B"
  ELSE IF overallScore > 50 THEN "C+"
  ELSE IF overallScore > 40 THEN "C"
  ELSE IF overallScore > 30 THEN "D"
  ELSE "F"

gradeOf(overallScore) ==
  IF overallScore >= 90 THEN "A+"
  ELSE IF overallScore >= 80 THEN "A"
  ELSE IF overallScore >= 70 THEN "B+"
  ELSE IF overallScore >= 60 THEN "B"
  ELSE IF overallScore >= 50 THEN "C+"
  ELSE IF overallScore >= 40 THEN "C"
  ELSE IF overallScore >= 30 THEN "D"
  ELSE "F"

\* the placement label with the bands of the grade B and C
placementReadyOf_lenient(overallScore) ==
  IF overallScore >= 60 THEN "Ready"
  ELSE IF overallScore >= 40 THEN "Needs Work"
  ELSE "Not Ready"

placementReadyOf(overallScore) ==
  IF overallScore >= 70 THEN "Ready"
  ELSE IF overallScore >= 50 THEN "Needs Work"
  ELSE "Not Ready"

\* a line of feedback: the template, the category and the count put into it
Message(text, type, count) == [text |-> text, type |-> type, count |-> count]

\* Object.entries(catAvg).forEach: avg >= 70 pushes a strength
RECURSIVE categoryStrengths(_, _)
categoryStrengths(order, catAvg) ==
  IF order = <<>> THEN <<>>
  ELSE (IF catAvg[Head(order)] >= 70
        THEN <<Message("Strong {type} skills", Head(order), 0)>> ELSE <<>>)
       \o categoryStrengths(Tail(order), catAvg)

\* Object.entries(catAvg).forEach: avg < 40 (and not >= 70) pushes a weakness
RECURSIVE categoryWeaknesses(_, _)
categoryWeaknesses(order, catAvg) ==
  IF order = <<>> THEN <<>>
  ELSE (IF catAvg[Head(order)] < 70 /\ catAvg[Head(order)] < 40
        THEN <<Message("Needs improvement in {type} areas", Head(order), 0)>> ELSE <<>>)
       \o categoryWeaknesses(Tail(order), catAvg)

\* the strengths with the participation entry pushed unconditionally
strengthsOf_alwaysParticipated(order, catAvg, answered, total, overallScore) ==
  LET s1 == categoryStrengths(order, catAvg)
      s2 == IF answered = total /\ overallScore >= 60
            THEN Append(s1, Message("Answered all questions", "", 0)) ELSE s1
  IN  Append(s2, Message("Participated in the interview", "", 0))

strengthsOf(order, catAvg, answered, total, overallScore) ==
  LET s1 == categoryStrengths(order, catAvg)
      s2 == IF answered = total /\ overallScore >= 60
            THEN Append(s1, Message("Answered all questions", "", 0)) ELSE s1
  IN  IF Len(s2) = 0 THEN <<Message("Participated in the interview", "", 0)>> ELSE s2

\* the weaknesses without the line about skipped questions
weaknessesOf_categoriesOnly(order, catAvg, skipped) ==
  LET w1 == categoryWeaknesses(order, catAvg)
  IN  IF Len(w1) = 0 THEN <<Message("No major weaknesses identified", "", 0)>> ELSE w1

weaknessesOf(order, catAvg, skipped) ==
  LET w1 == categoryWeaknesses(order, catAvg)
      w2 == IF skipped > 0
            THEN Append(w1, Message("Skipped {n} question(s)", "", skipped)) ELSE w1
  IN  IF Len(w2) = 0 THEN <<Message("No major weaknesses identified", "", 0)>> ELSE w2

\* the suggestions with the entry about skipping pushed after the one about
\* mock interviews
suggestionsOf_skipLast(catAvg, skipped, overallScore) ==
  LET has(t) == t \in DOMAIN catAvg
      s1 == IF overallScore < 70
            THEN <<"Practice answering questions out loud to improve fluency">> ELSE <<>>
      s2 == IF has("technical") /\ catAvg["technical"] < 60
            THEN Append(s1, "Review core technical concepts and practice coding problems")
            ELSE s1
      s3 == IF has("hr") /\ catAvg["hr"] < 60
            THEN Append(s2, "Prepare STAR method responses for behavioral questions")
            ELSE s2
      s4 == IF overallScore < 50
            THEN Append(s3, "Consider taking mock interviews to build confidence") ELSE s3
      s5 == IF skipped > 0
            THEN Append(s4, "Try to attempt all questions instead of skipping") ELSE s4
  IN  IF Len(s5) = 0 THEN <<"Continue practicing to maintain your skills">> ELSE s5

suggestionsOf(catAvg, skipped, overallScore) ==
  LET has(t) == t \in DOMAIN catAvg
      s1 == IF overallScore < 70
            THEN <<"Practice answering questions out loud to improve fluency">> ELSE <<>>
      s2 == IF has("technical") /\ catAvg["technical"] < 60
            THEN Append(s1, "Review core technical concepts and practice coding problems")
            ELSE s1
      s3 == IF has("hr") /\ catAvg["hr"] < 60
            THEN Append(s2, "Prepare STAR method responses for behavioral questions")
            ELSE s2
      s4 == IF skipped > 0
            THEN Append(s3, "Try to attempt all questions instead of skipping") ELSE s3
      s5 == IF overallScore < 50
            THEN Append(s4, "Consider taking mock interviews to build confidence") ELSE s4
  IN  IF Len(s5) = 0 THEN <<"Continue practicing to maintain your skills">> ELSE s5

\* the report object, given the outcomes of the two roundings
buildReport(allScores, qs, overallScore, catAvg) ==
  LET order == categoryOrder(allScores, qs, <<>>)
      total == Len(qs)
      answered == answeredCount(allScores)
      skipped == skippedCount(allScores)
  IN  [ overall_score |-> overallScore,
        grade |-> gradeOf(overallScore),
        questions_answered |-> answered,
        total_questions |-> total,
        questions_skipped |-> skipped,
        category_scores |-> catAvg,
        strengths |-> strengthsOf(order, catAvg, answered, total, overallScore),
        weaknesses |-> weaknessesOf(order, catAvg, skipped),
        improvement_suggestions |-> suggestionsOf(catAvg, skipped, overallScore),
        placement_ready |-> placementReadyOf(overallScore) ]

\* what one call of endInterview hands to navigate: the report, together with
\* the allScores it was computed from and the questionScores and questions the
\* call saw
endInterviewResults(qScores, qs) ==
  LET allScores == allScoresOf(qScores, qs)
      \* with a single category over exactly Len(qs) entries the two averages
      \* are the same float computation, so they round alike
      alike(o, ca) ==
        (Len(allScores) = Len(qs) /\ Cardinality(DOMAIN ca) = 1)
          => \A t \in DOMAIN ca : ca[t] = o
  IN  { r \in { [ report |-> buildReport(allScores, qs, o, ca),
                  allScores |-> allScores,
                  questionScores |-> qScores,
                  questions |-> qs ] :
                o \in overallScores(allScores, Len(qs)), ca \in catAvgs(allScores, qs) } :
        alike(r.report.overall_score, r.report.category_scores) }

\* ------------------------------------------------------------------ inputs
Question(text, type, keywords) ==
  [question_text |-> text, question_type |-> type, expected_keywords |-> keywords]

KwRecursion == <<"r","e","c","u","r","s","i","o","n">>
KwBaseCase == <<"b","a","s","e"," ","c","a","s","e">>
KwPython == <<"P","y","t","h","o","n">>

QTechnical == Question("Explain recursion.", "technical", <<KwRecursion, KwBaseCase>>)
QHr == Question("Why do you want this job?", "hr", <<>>)
QUntyped == Question("Anything to add?", "", <<KwPython, KwRecursion, KwBaseCase>>)

\* the mock questions of initializeInterview
mockQuestions ==
  << Question("Tell me about yourself and your background in technology.", "hr", <<>>),
     Question("What programming languages are you most proficient in?", "technical", <<>>),
     Question("Describe a challenging project you've worked on.", "project", <<>>),
     Question("How do you handle debugging a complex issue?", "scenario", <<>>),
     Question("What are your career goals for the next 5 years?", "hr", <<>>) >>

\* the lists /api/interview/{sessionId}/questions answers with
\* (<<>> also stands for a body without questions: data.questions || [])
FetchedLists == { <<>>, <<QTechnical>>, <<QUntyped>>, <<QTechnical, QHr>> }

\* what the recogniser hears
SaidGood ==
     <<"r","e","c","u","r","s","i","o","n"," ">>
  \o <<"b","a","s","e"," ">>
  \o <<"c","a","s","e"," ">>
  \o <<"b","e","c","a","u","s","e">>
SaidHi == <<"h","i">>

\* onresult events: <<finalTranscript, interimTranscript>>
ResultEvents ==
  { <<SaidGood, <<>>>>, <<<<>>, SaidHi>>, <<<<>>, <<SP>>>> }

\* ------------------------------------------------------------------- state
VARIABLES
  fetchState,       \* "pending" while initializeInterview awaits fetch, then "done"
  mounted,          \* the component is mounted (no navigate yet)
  questions,        \* useState: the question list
  currentQuestion,  \* useState: <<q>>, or <<>> for null
  questionNumber,   \* useState
  transcript,       \* useState
  isRecording,      \* useState
  isAISpeaking,     \* useState
  questionScores,   \* useState: sequence of {idx, score, skipped}
  responses,        \* useState: sequence of {question_idx, response_text}
  recognizing,      \* the SpeechRecognition of recognitionRef is started
  utterances,       \* utterances whose onend/onerror is still to be delivered
  timers,           \* pending setTimeout callbacks, oldest first
  reports,          \* what endInterview handed to navigate, oldest first
  evalCall,         \* one call of evaluateAnswer (scorer specification)
  aggCase,          \* one score assignment and its overall score (aggregator specification)
  reportCall,       \* one call of endInterview on drawn inputs (report specification)
  asked             \* the question numbers askQuestion has been called with so far

sessionVars ==
  <<fetchState, mounted, questions, currentQuestion, questionNumber, transcript,
    isRecording, isAISpeaking, questionScores, responses, recognizing, utterances,
    timers, reports, asked>>
vars == <<sessionVars, evalCall, aggCase, reportCall>>

MaxEvents == 2          \* answer and skip events of one session
MaxTranscriptLen == 30  \* characters of a transcript

evalIdle == [pc |-> "idle", answer |-> <<>>, question |-> <<>>, result |-> 0]
aggIdle == [pc |-> "idle", scores |-> <<>>, overall |-> 0, skips |-> 0]
reportIdle == [pc |-> "idle", questions |-> <<>>, questionScores |-> <<>>]

\* the state of the component after its first render
InitSession ==
  /\ fetchState = "pending"
  /\ mounted = TRUE
  /\ questions = <<>>
  /\ currentQuestion = <<>>
  /\ questionNumber = 1
  /\ transcript = <<>>
  /\ isRecording = FALSE
  /\ isAISpeaking = FALSE
  /\ questionScores = <<>>
  /\ responses = <<>>
  /\ recognizing = FALSE
  /\ utterances = 0
  /\ timers = <<>>
  /\ reports = <<>>
  /\ asked = {}

Init == InitSession /\ evalCall = evalIdle /\ aggCase = aggIdle /\ reportCall = reportIdle

\* ----------------------------------------------------------------- helpers
\* a state setter: React drops updates of an unmounted component
set(current, new) == IF mounted THEN new ELSE current

RemoveAt(seq, i) == SubSeq(seq, 1, i - 1) \o SubSeq(seq, i + 1, Len(seq))

\* a callback that sees the questionScores its handler has just set
Timer_latest(delay) ==
  [ delay |-> delay,
    questionNumber |-> questionNumber,
    questions |-> questions,
    questionScores |-> questionScores' ]

\* the callback of setTimeout(() => moveToNextQuestion(), delay): it closes over
\* the questionNumber, questions and questionScores of the render of its handler
Timer(delay) ==
  [ delay |-> delay,
    questionNumber |-> questionNumber,
    questions |-> questions,
    questionScores |-> questionScores ]

AnswerDelay == 2000
SkipDelay == 1000

\* speakText: setIsAISpeaking(true); cancel(); speak(utterance).  The cancelled
\* utterance still gets its onend/onerror delivered.
speakText(text) ==
  /\ isAISpeaking' = set(isAISpeaking, TRUE)
  /\ utterances' = utterances + 1

askQuestion(question, number) ==
  /\ currentQuestion' = set(currentQuestion, <<question>>)
  /\ questionNumber' = set(questionNumber, number)
  /\ transcript' = set(transcript, <<>>)
  /\ speakText(question.question_text)
  /\ asked' = asked \cup {number}

\* endInterview on the questionScores and questions of its closure; navigate
\* unmounts the component: its cleanup stops the recognition and its state
\* is discarded
endInterview(qScores, qs) ==
  /\ \E r \in endInterviewResults(qScores, qs) : reports' = Append(reports, r)
  /\ mounted' = FALSE
  /\ recognizing' = FALSE
  /\ questions' = <<>>
  /\ currentQuestion' = <<>>
  /\ questionNumber' = 1
  /\ transcript' = <<>>
  /\ isRecording' = FALSE
  /\ isAISpeaking' = FALSE
  /\ questionScores' = <<>>
  /\ responses' = <<>>

\* moveToNextQuestion without the call of endInterview after the last question
moveToNextQuestion_noEnd(closure) ==
  LET nextNumber == closure.questionNumber + 1
  IN  IF nextNumber <= Len(closure.questions)
      THEN /\ askQuestion(closure.questions[nextNumber], nextNumber)
           /\ UNCHANGED <<mounted, recognizing, reports, questions, isRecording,
                          questionScores, responses>>
      ELSE UNCHANGED <<mounted, recognizing, reports, questions, isRecording,
                       questionScores, responses, currentQuestion, questionNumber,
                       transcript, isAISpeaking, utterances, asked>>

\* moveToNextQuestion going on to the question after the next
moveToNextQuestion_byTwo(closure) ==
  LET nextNumber == closure.questionNumber + 2
  IN  IF nextNumber <= Len(closure.questions)
      THEN /\ askQuestion(closure.questions[nextNumber], nextNumber)
           /\ UNCHANGED <<mounted, recognizing, reports, questions, isRecording,
                          questionScores, responses>>
      ELSE /\ endInterview(closure.questionScores, closure.questions)
           /\ UNCHANGED <<utterances, asked>>

moveToNextQuestion(closure) ==
  LET nextNumber == closure.questionNumber + 1
  IN  IF nextNumber <= Len(closure.questions)
      THEN /\ askQuestion(closure.questions[nextNumber], nextNumber)
           /\ UNCHANGED <<mounted, recognizing, reports, questions, isRecording,
                          questionScores, responses>>
      ELSE /\ endInterview(closure.questionScores, closure.questions)
           /\ UNCHANGED <<utterances, asked>>

\* ----------------------------------------------------------------- actions
\* initializeInterview, response.ok: the fetched list arrives
FetchOk(list) ==
  /\ fetchState = "pending"
  /\ fetchState' = "done"
  /\ questions' = set(questions, list)
  /\ IF Len(list) > 0
     THEN askQuestion(list[1], 1)
     ELSE UNCHANGED <<currentQuestion, questionNumber, transcript, isAISpeaking,
                      utterances, asked>>
  /\ UNCHANGED <<mounted, isRecording, questionScores, responses, recognizing,
                 timers, reports, evalCall, aggCase, reportCall>>

\* initializeInterview, !response.ok: the mock questions
FetchNotOk ==
  /\ fetchState = "pending"
  /\ fetchState' = "done"
  /\ questions' = set(questions, mockQuestions)
  /\ askQuestion(mockQuestions[1], 1)
  /\ UNCHANGED <<mounted, isRecording, questionScores, responses, recognizing,
                 timers, reports, evalCall, aggCase, reportCall>>

\* initializeInterview, catch: the fetch fails
FetchError ==
  /\ fetchState = "pending"
  /\ fetchState' = "done"
  /\ UNCHANGED <<mounted, questions, currentQuestion, questionNumber, transcript,
                 isRecording, isAISpeaking, questionScores, responses, recognizing,
                 utterances, timers, reports, evalCall, aggCase, reportCall, asked>>

\* utterance.onend / utterance.onerror
UtteranceEnd ==
  /\ utterances > 0
  /\ utterances' = utterances - 1
  /\ isAISpeaking' = set(isAISpeaking, FALSE)
  /\ UNCHANGED <<fetchState, mounted, questions, currentQuestion, questionNumber,
                 transcript, isRecording, questionScores, responses, recognizing,
                 timers, reports, evalCall, aggCase, reportCall, asked>>

\* the record button while !isRecording (disabled while isAISpeaking),
\* in a browser that has SpeechRecognition
startRecording ==
  /\ mounted /\ ~isAISpeaking /\ ~isRecording
  /\ recognizing' = TRUE
  /\ isRecording' = TRUE
  /\ transcript' = <<>>
  /\ UNCHANGED <<fetchState, mounted, questions, currentQuestion, questionNumber,
                 isAISpeaking, questionScores, responses, utterances, timers,
                 reports, evalCall, aggCase, reportCall, asked>>

\* recognition.onresult: setTranscript(prev => prev + finalTranscript || interimTranscript)
onresult(finalTranscript, interimTranscript) ==
  /\ recognizing
  /\ transcript' = IF transcript \o finalTranscript # <<>>
                   THEN transcript \o finalTranscript
                   ELSE interimTranscript
  /\ UNCHANGED <<fetchState, mounted, questions, currentQuestion, questionNumber,
                 isRecording, isAISpeaking, questionScores, responses, recognizing,
                 utterances, timers, reports, evalCall, aggCase, reportCall, asked>>

\* recognition.onerror
onerror ==
  /\ recognizing
  /\ recognizing' = FALSE
  /\ isRecording' = FALSE
  /\ UNCHANGED <<fetchState, mounted, questions, currentQuestion, questionNumber,
                 transcript, isAISpeaking, questionScores, responses, utterances,
                 timers, reports, evalCall, aggCase, reportCall, asked>>

\* recognition.onend: its closure is the one of startRecording, where isRecording
\* is false, so the recognition is not restarted
onend ==
  /\ recognizing
  /\ recognizing' = FALSE
  /\ UNCHANGED <<fetchState, mounted, questions, currentQuestion, questionNumber,
                 transcript, isRecording, isAISpeaking, questionScores, responses,
                 utterances, timers, reports, evalCall, aggCase, reportCall, asked>>

\* the record button while isRecording (disabled while isAISpeaking)
stopRecording ==
  /\ mounted /\ isRecording /\ ~isAISpeaking
  /\ isRecording' = FALSE
  /\ recognizing' = FALSE
  /\ IF trim(transcript) = <<>>
     THEN UNCHANGED <<responses, questionScores, timers>>
     ELSE /\ responses' = Append(responses, [question_idx |-> questionNumber - 1,
                                             response_text |-> transcript])
          /\ \E score \in evaluateAnswer(transcript, currentQuestion) :
               questionScores' =
                 Append(questionScores, Entry(questionNumber - 1, score, FALSE))
          /\ timers' = Append(timers, Timer(AnswerDelay))
  /\ UNCHANGED <<fetchState, mounted, questions, currentQuestion, questionNumber,
                 transcript, isAISpeaking, utterances, reports, evalCall, aggCase, reportCall, asked>>

\* a skip that records the lowest score of an answer instead of 0
skipQuestion_scored ==
  /\ mounted
  /\ questionScores' = Append(questionScores, Entry(questionNumber - 1, 10, TRUE))
  /\ timers' = Append(timers, Timer(SkipDelay))
  /\ UNCHANGED <<fetchState, mounted, questions, currentQuestion, questionNumber,
                 transcript, isRecording, isAISpeaking, responses, recognizing,
                 utterances, reports, evalCall, aggCase, reportCall, asked>>

\* the Skip Question button
skipQuestion ==
  /\ mounted
  /\ questionScores' = Append(questionScores, Entry(questionNumber - 1, 0, TRUE))
  /\ timers' = Append(timers, Timer(SkipDelay))
  /\ UNCHANGED <<fetchState, mounted, questions, currentQuestion, questionNumber,
                 transcript, isRecording, isAISpeaking, responses, recognizing,
                 utterances, reports, evalCall, aggCase, reportCall, asked>>

\* a setTimeout callback runs; a timer set earlier with no longer a delay runs first
TimerFires(i) ==
  /\ i \in 1..Len(timers)
  /\ \A j \in 1..(i - 1) : timers[j].delay > timers[i].delay
  /\ timers' = RemoveAt(timers, i)
  /\ moveToNextQuestion(timers[i])
  /\ UNCHANGED <<fetchState, evalCall, aggCase, reportCall>>

\* one recognition result of the session, the transcript kept within its bound
ResultEvent(ev) ==
  /\ onresult(ev[1], ev[2])
  /\ Len(transcript') <= MaxTranscriptLen

\* a click on the record button that stops the recording, the answers and
\* skips of the session kept within their bound
StopClick ==
  /\ trim(transcript) # <<>> => Len(questionScores) < MaxEvents
  /\ stopRecording

\* a click on Skip Question, the answers and skips of the session kept within
\* their bound
SkipClick ==
  /\ Len(questionScores) < MaxEvents
  /\ skipQuestion

\* the End Interview button
EndInterviewClick ==
  /\ mounted
  /\ endInterview(questionScores, questions)
  /\ UNCHANGED <<fetchState, utterances, timers, evalCall, aggCase, reportCall, asked>>

Next ==
  \/ \E list \in FetchedLists : FetchOk(list)
  \/ FetchNotOk
  \/ FetchError
  \/ UtteranceEnd
  \/ startRecording
  \/ \E ev \in ResultEvents : ResultEvent(ev)
  \/ onerror
  \/ onend
  \/ StopClick
  \/ SkipClick
  \/ \E i \in 1..MaxEvents : TimerFires(i)
  \/ EndInterviewClick

Spec == Init /\ [][Next]_vars

\* --------------------------------------------- the scorer on its own inputs
\* speech fragments an answer is put together from
EvalFragments ==
  { <<SP>>,
    <<"h","i">>,
    <<" ","B","e","c","a","u","s","e">>,
    <<" ","f","i","r","s","t">>,
    <<" ","R","e","c","u","r","s","i","o","n">>,
    <<" ","b","a","s","e"," ","c","a","s","e">> }

\* n filler words
RECURSIVE Pad(_)
Pad(n) == IF n <= 0 THEN <<>> ELSE <<SP, "x">> \o Pad(n - 1)

\* the example answer of the specification
ExampleAnswer ==
     <<"R","e","c","u","r","s","i","o","n"," ">>
  \o <<"w","o","r","k","s"," ">>
  \o <<"b","y"," ">>
  \o <<"b","r","e","a","k","i","n","g"," ">>
  \o <<"a"," ">>
  \o <<"p","r","o","b","l","e","m"," ">>
  \o <<"i","n","t","o"," ">>
  \o <<"a"," ">>
  \o <<"b","a","s","e"," ">>
  \o <<"c","a","s","e"," ">>
  \o <<"a","n","d"," ">>
  \o <<"s","m","a","l","l","e","r"," ">>
  \o <<"s","u","b","p","r","o","b","l","e","m","s",","," ">>
  \o <<"f","o","r"," ">>
  \o <<"e","x","a","m","p","l","e"," ">>
  \o <<"c","o","m","p","u","t","i","n","g"," ">>
  \o <<"f","a","c","t","o","r","i","a","l",".">>

\* four characters between tabs, spaces and a newline
PaddedWord == <<"\t"," ","w","o","r","d"," ","\n">>

\* every connective, marker and keyword, and a hundred words or more
FullAnswer ==
  <<"B","e","c","a","u","s","e"," ","f","i","r","s","t"," ">>
    \o KwRecursion \o <<SP>> \o KwBaseCase \o <<SP>> \o KwPython
    \o Pad(MaxPadUnits * PadUnit)

EvalAnswers ==
  {Null, ExampleAnswer, PaddedWord, FullAnswer}
    \cup { Flatten(frags) \o Pad(k * PadUnit) :
             frags \in UNION {[1..n -> EvalFragments] : n \in 0..MaxFragments},
             k \in 0..MaxPadUnits }

\* null, no keywords, and keyword lists of two and three
EvalQuestions == { <<>>, <<QHr>>, <<QTechnical>>, <<QUntyped>> }

InitEval ==
  /\ InitSession
  /\ aggCase = aggIdle
  /\ reportCall = reportIdle
  /\ \E a \in EvalAnswers, q \in EvalQuestions :
       evalCall = [pc |-> "call", answer |-> a, question |-> q, result |-> 0]

\* one call evaluateAnswer(answer, question)
Evaluate ==
  /\ evalCall.pc = "call"
  /\ \E score \in evaluateAnswer(evalCall.answer, evalCall.question) :
       evalCall' = [evalCall EXCEPT !.pc = "done", !.result = score]
  /\ UNCHANGED <<sessionVars, aggCase, reportCall>>

NextEval == Evaluate

SpecEval == InitEval /\ [][NextEval]_vars

\* ----------------------------------------- the aggregator on its own inputs
MaxAggQuestions == 3    \* questions of a score assignment

\* scores of answered questions, in tenths
AggScores == {0, 10, 33, 59, 100}

InitAgg ==
  /\ InitSession
  /\ evalCall = evalIdle
  /\ reportCall = reportIdle
  /\ \E n \in 1..MaxAggQuestions :
       \E sc \in [1..n -> AggScores] :
         LET scores == [i \in 1..n |-> Entry(i - 1, sc[i], FALSE)]
         IN  \E o \in overallScores(scores, n) :
               aggCase = [pc |-> "agg", scores |-> scores, overall |-> o, skips |-> 0]

\* one more question is skipped instead of answered, the other scores being
\* kept; the same numbers in the same order give the same float result
SkipAnother(i) ==
  /\ aggCase.pc = "agg"
  /\ i \in 1..Len(aggCase.scores)
  /\ ~aggCase.scores[i].skipped
  /\ LET scores == [aggCase.scores EXCEPT ![i] = Entry(i - 1, 0, TRUE)]
     IN  \E o \in overallScores(scores, Len(scores)) :
           /\ aggCase.scores[i].score = 0 => o = aggCase.overall
           /\ aggCase' = [pc |-> "agg", scores |-> scores, overall |-> o,
                          skips |-> aggCase.skips + 1]
  /\ UNCHANGED <<sessionVars, evalCall, reportCall>>

NextAgg == \E i \in 1..MaxAggQuestions : SkipAnother(i)

SpecAgg == InitAgg /\ [][NextAgg]_vars

\* ------------------------- a session that takes each question once, in order
MaxAnswers == 3   \* questions answered in one session; the others are skipped

\* a fetched list of ten questions
TenQuestions == [i \in 1..10 |-> IF i % 2 = 1 THEN QTechnical ELSE QHr]

\* answers that a question without expected_keywords scores 8.0, 6.0 and 4.0:
\* 100 words with a connective and an enumeration marker; 33 words with both;
\* 7 words with a connective
Said80 == <<"b","e","c","a","u","s","e"," ","f","i","r","s","t">> \o Pad(98)
Said60 == <<"b","e","c","a","u","s","e"," ","f","i","r","s","t">> \o Pad(31)
Said40 == <<"b","e","c","a","u","s","e">> \o Pad(6)
SaidInOrder == {Said80, Said60, Said40}

\* the question on screen has been read out, nothing is pending, and the
\* question has no answer or skip yet
Untouched ==
  /\ mounted /\ fetchState = "done" /\ questions # <<>>
  /\ utterances = 0 /\ timers = <<>> /\ ~isRecording
  /\ \A k \in 1..Len(questionScores) : questionScores[k].idx # questionNumber - 1

AnswerStart ==
  /\ Untouched
  /\ Len(responses) < MaxAnswers
  /\ startRecording

\* the recogniser delivers the whole answer as one final result
AnswerHeard(said) ==
  /\ isRecording /\ transcript = <<>>
  /\ onresult(said, <<>>)

AnswerStop ==
  /\ isRecording /\ transcript # <<>>
  /\ stopRecording

SkipOnce ==
  /\ Untouched
  /\ skipQuestion

\* End Interview clicked once the last question has its answer or skip
EndAtLast ==
  /\ questions # <<>>
  /\ Len(questionScores) = Len(questions)
  /\ EndInterviewClick

NextInOrder ==
  \/ FetchNotOk
  \/ FetchOk(TenQuestions)
  \/ UtteranceEnd
  \/ AnswerStart
  \/ \E said \in SaidInOrder : AnswerHeard(said)
  \/ AnswerStop
  \/ SkipOnce
  \/ EndAtLast
  \/ TimerFires(1)

SpecInOrder == Init /\ [][NextInOrder]_vars

\* ------------------------------------ endInterview on its own inputs
MaxReportEntries == 2   \* entries of questionScores when endInterview is called

\* a question list of three, one question without a category
ThreeQuestions == <<QHr, QUntyped, QTechnical>>

ReportLists == { <<>>, <<QTechnical>>, <<QTechnical, QHr>>, ThreeQuestions, mockQuestions }

\* scores evaluateAnswer gives on any question, with or without keywords (tenths)
ReportScores == {0, 45, 70, 80}

\* the entries the handlers can have appended for a question list: a skip or
\* an answer for the index questionNumber - 1, which is 0 while the list is empty
ReportEntries(qs) ==
  LET indices == IF qs = <<>> THEN {0} ELSE 0..(Len(qs) - 1)
  IN  {Entry(i, 0, TRUE) : i \in indices}
        \cup {Entry(i, sc, FALSE) : i \in indices, sc \in ReportScores}

InitReport ==
  /\ InitSession
  /\ evalCall = evalIdle
  /\ aggCase = aggIdle
  /\ \E qs \in ReportLists :
       \E qScores \in UNION {[1..n -> ReportEntries(qs)] : n \in 0..MaxReportEntries} :
         reportCall = [pc |-> "call", questions |-> qs, questionScores |-> qScores]

\* one call of endInterview with the questions and questionScores drawn
Aggregate ==
  /\ reportCall.pc = "call"
  /\ reportCall' = [reportCall EXCEPT !.pc = "done"]
  /\ endInterview(reportCall.questionScores, reportCall.questions)
  /\ UNCHANGED <<fetchState, utterances, timers, evalCall, aggCase, asked>>

NextReport == Aggregate

SpecReport == InitReport /\ [][NextReport]_vars

\* ----------------------------------------- the session in order, to its end
\* the session in order once more, over three fetched questions or the mock
\* questions and with short answers, for what has to happen eventually
SaidBriefly == {SaidGood, Said40}

NextToTheEnd ==
  \/ FetchNotOk
  \/ FetchOk(ThreeQuestions)
  \/ UtteranceEnd
  \/ AnswerStart
  \/ \E said \in SaidBriefly : AnswerHeard(said)
  \/ AnswerStop
  \/ SkipOnce
  \/ TimerFires(1)

\* the fetch resolves, every utterance ends, every timer fires, and the
\* candidate keeps answering or skipping the question asked
FairToTheEnd ==
  /\ Init /\ [][NextToTheEnd]_vars
  /\ WF_vars(FetchNotOk \/ FetchOk(ThreeQuestions))
  /\ WF_vars(UtteranceEnd)
  /\ WF_vars(TimerFires(1))
  /\ WF_vars(AnswerStart \/ SkipOnce)
  /\ WF_vars(\E said \in SaidBriefly : AnswerHeard(said))
  /\ WF_vars(AnswerStop)

\* ------------------------------------------------------------- properties
Abs(x) == IF x < 0 THEN -x ELSE x
Last(seq) == seq[Len(seq)]

\* the entries a sequence of scores holds for one question index
entriesFor(scores, i) == {k \in 1..Len(scores) : scores[k].idx = i}

\* the score first recorded for a question index, 0 when there is none
firstScore(scores, i) ==
  IF entriesFor(scores, i) = {} THEN 0
  ELSE scores[CHOOSE k \in entriesFor(scores, i) : \A j \in entriesFor(scores, i) : k <= j].score

RECURSIVE sumFirstScores(_, _)
sumFirstScores(scores, n) ==
  IF n <= 0 THEN 0 ELSE firstScore(scores, n - 1) + sumFirstScores(scores, n - 1)

\* C1: in every report questions_answered + questions_skipped equals
\* total_questions.
C1_AnsweredPlusSkippedIsTotal ==
  \A k \in 1..Len(reports) :
    reports[k].report.questions_answered + reports[k].report.questions_skipped
      = reports[k].report.total_questions

\* C2: no question index is scored twice, neither in the recorded scores nor
\* in the scores a report is computed from.
C2_NoIndexScoredTwice ==
  /\ \A i, j \in 1..Len(questionScores) :
       i # j => questionScores[i].idx # questionScores[j].idx
  /\ \A k \in 1..Len(reports) :
       \A i, j \in 1..Len(reports[k].allScores) :
         i # j => reports[k].allScores[i].idx # reports[k].allScores[j].idx

\* C3: when the session produces its report over the questions that have
\* arrived, every answered question is counted in questions_answered and
\* overall_score is 10 * (sum of the score of each question index) /
\* total_questions rounded to an integer, the scores being the ones recorded
\* when the report is built.
C3_AnswersReachTheReport ==
  [][ ( /\ mounted
        /\ questions # <<>>
        /\ Len(reports') = Len(reports) + 1
        /\ Last(reports').report.total_questions = Len(questions) ) =>
        LET report == Last(reports').report
            total == report.total_questions
            answered == {responses[k].question_idx : k \in 1..Len(responses)}
        IN  /\ report.questions_answered >= Cardinality(answered)
            /\ 2 * Abs(report.overall_score * total - sumFirstScores(questionScores, total))
                 <= total ]_vars

\* C4: in every report overall_score is an integer from 0 to 100.
C4_OverallScoreInRange ==
  \A k \in 1..Len(reports) : reports[k].report.overall_score \in 0..100

\* C5: whichever way the interview ends, every question index below the total
\* has an entry in the scores the report is computed from, and an index that
\* endInterview found no recorded score for has exactly one, with score 0 and
\* skipped = true.
C5_MissingIndicesAreSynthesized ==
  \A k \in 1..Len(reports) :
    \A i \in 0..(reports[k].report.total_questions - 1) :
      /\ entriesFor(reports[k].allScores, i) # {}
      /\ entriesFor(reports[k].questionScores, i) = {} =>
           /\ Cardinality(entriesFor(reports[k].allScores, i)) = 1
           /\ \A e \in entriesFor(reports[k].allScores, i) :
                /\ reports[k].allScores[e].score = 0
                /\ reports[k].allScores[e].skipped

\* a report of two or more questions, of which endInterview saw one scored and
\* had to synthesize another
C5_Witness ==
  \E k \in 1..Len(reports) :
    /\ reports[k].report.total_questions >= 2
    /\ \E i \in 0..(reports[k].report.total_questions - 1) :
         entriesFor(reports[k].questionScores, i) = {}
    /\ \E i \in 0..(reports[k].report.total_questions - 1) :
         \E e \in entriesFor(reports[k].questionScores, i) :
           ~reports[k].questionScores[e].skipped

\* C6: endInterview builds and hands over a report at most once per session.
C6_AtMostOneReport == Len(reports) <= 1

\* the characters of s between its first and its last non-whitespace character
RECURSIVE stripLeft(_)
stripLeft(s) ==
  IF s # <<>> /\ Head(s) \in Whitespace THEN stripLeft(Tail(s)) ELSE s
RECURSIVE stripRight(_)
stripRight(s) ==
  IF s # <<>> /\ s[Len(s)] \in Whitespace THEN stripRight(SubSeq(s, 1, Len(s) - 1)) ELSE s
trimmedLength(s) == Len(stripRight(stripLeft(s)))

\* an answer the scorer treats as none: absent, empty, or under 5 trimmed characters
trivialAnswer(answer) ==
  answer = Null \/ answer = <<>> \/ trimmedLength(answer) < 5

\* C7: evaluateAnswer returns exactly 0 for every answer that is absent, empty
\* or has fewer than 5 characters once trimmed, whatever the keywords are.
C7_TrivialAnswerScoresZero ==
  (evalCall.pc = "done" /\ trivialAnswer(evalCall.answer)) => evalCall.result = 0

\* an answer of 5 characters or more, whitespace included, but fewer than 5
\* trimmed, scored 0 against a question that has keywords
C7_Witness ==
  /\ evalCall.pc = "done"
  /\ evalCall.answer # Null
  /\ Len(evalCall.answer) >= 5
  /\ trimmedLength(evalCall.answer) \in 1..4
  /\ Len(expectedKeywords(evalCall.question)) > 0
  /\ evalCall.result = 0

\* C8: for every answer of at least 5 trimmed characters and every keyword
\* list the score s satisfies 1 <= s <= 10.
C8_NonTrivialScoreInRange ==
  (evalCall.pc = "done" /\ ~trivialAnswer(evalCall.answer))
    => evalCall.result \in 10..100

\* the top score, given to an answer that is not trivial
C8_Witness ==
  /\ evalCall.pc = "done"
  /\ ~trivialAnswer(evalCall.answer)
  /\ evalCall.result = 100

\* the weighted sum 0.4*keyword + 0.3*length + 0.3*structure, times 100 * den,
\* where keyword = 10*matched/total (5 without keywords, den = total or 1),
\* length = min(10, words/10) and structure = 4 (+2) (+2) (+2)
formulaDen(answer, question) ==
  IF expectedKeywords(question) = <<>> THEN 1 ELSE Len(expectedKeywords(question))
formulaNum(answer, question) ==
  LET kws == expectedKeywords(question)
      lower == toLowerCase(answer)
      den == formulaDen(answer, question)
      matched == Cardinality({k \in 1..Len(kws) : includes(lower, toLowerCase(kws[k]))})
      words == splitLength(answer)
      keyword100 == IF kws = <<>> THEN 500 ELSE 1000 * matched    \* 100 * den * keyword
      length100 == den * (IF words >= 100 THEN 1000 ELSE 10 * words)
      bonus(c) == IF c THEN 2 ELSE 0
      structure100 ==
        100 * den * (4 + bonus(\E w \in Connectives : includes(lower, w))
                       + bonus(\E w \in EnumerationMarkers : includes(lower, w))
                       + bonus(words >= 30))
  IN  (4 * keyword100 + 3 * length100 + 3 * structure100) \div 10

\* C9: for a non-trivial answer evaluateAnswer returns
\* clamp(0.4*keyword + 0.3*length + 0.3*structure, 1, 10) rounded to one
\* decimal (within 0.05 of the clamped sum), and the example of the
\* specification, scored against its two keywords, gives 6.3.
C9_WeightedFormula ==
  (evalCall.pc = "done" /\ ~trivialAnswer(evalCall.answer)) =>
    LET den == 100 * formulaDen(evalCall.answer, evalCall.question)
        num == formulaNum(evalCall.answer, evalCall.question)
        clamped == IF num < den THEN den ELSE IF num > 10 * den THEN 10 * den ELSE num
    IN  /\ 2 * Abs(evalCall.result * den - 10 * clamped) <= den
        /\ (evalCall.answer = ExampleAnswer /\ evalCall.question = <<QTechnical>>)
             => evalCall.result = 63

\* the example has been scored
C9_Witness ==
  /\ evalCall.pc = "done"
  /\ evalCall.answer = ExampleAnswer
  /\ evalCall.question = <<QTechnical>>
  /\ evalCall.result = 63

\* C10: skipping one more question, the other scores unchanged, never
\* increases overall_score.
C10_SkippingNeverRaisesOverall ==
  [][aggCase'.overall <= aggCase.overall]_vars

\* two questions skipped out of three, the third keeping the report above 0
C10_Witness ==
  /\ aggCase.pc = "agg"
  /\ aggCase.skips = 2
  /\ Len(aggCase.scores) = 3
  /\ aggCase.overall > 0

\* the calls of endInterview so far, each with its report
Produced == {reports[k] : k \in 1..Len(reports)}

Grades == {"A+", "A", "B+", "B", "C+", "C", "D", "F"}

\* the band of a grade as the specification lists it
InBand(score, grade) ==
  CASE grade = "A+" -> score >= 90
    [] grade = "A"  -> score >= 80 /\ score < 90
    [] grade = "B+" -> score >= 70 /\ score < 80
    [] grade = "B"  -> score >= 60 /\ score < 70
    [] grade = "C+" -> score >= 50 /\ score < 60
    [] grade = "C"  -> score >= 40 /\ score < 50
    [] grade = "D"  -> score >= 30 /\ score < 40
    [] grade = "F"  -> score < 30

\* C11: every integer overall score from 0 to 100 lies in the band of exactly
\* one grade (>=90 A+, >=80 A, >=70 B+, >=60 B, >=50 C+, >=40 C, >=30 D, below
\* 30 F), that grade is the one the code gives it, and the grade of every
\* report produced is the band its own overall_score lies in.
C11_GradeIsTheBandOfTheScore ==
  /\ \A score \in 0..100 :
       /\ Cardinality({g \in Grades : InBand(score, g)}) = 1
       /\ InBand(score, gradeOf(score))
  /\ \A r \in Produced :
       /\ r.report.grade \in Grades
       /\ InBand(r.report.overall_score, r.report.grade)

\* a report on the lower edge of a band: overall_score 70, grade B+
C11_Witness ==
  \E r \in Produced : r.report.overall_score = 70 /\ r.report.grade = "B+"

\* C12: in every report placement_ready is 'Ready' exactly when overall_score
\* >= 70, 'Needs Work' exactly when 50 <= overall_score < 70, and 'Not Ready'
\* exactly when overall_score < 50.
C12_PlacementFollowsTheScore ==
  \A r \in Produced :
    LET score == r.report.overall_score
        label == r.report.placement_ready
    IN  /\ (label = "Ready") <=> (score >= 70)
        /\ (label = "Needs Work") <=> (score >= 50 /\ score < 70)
        /\ (label = "Not Ready") <=> (score < 50)

\* a report in the middle band whose grade is B: between the two thresholds
C12_Witness ==
  \E r \in Produced :
    /\ r.report.placement_ready = "Needs Work"
    /\ r.report.overall_score >= 60

\* every index below n has exactly one entry in the recorded scores
OneEventEach(scores, n) ==
  /\ Len(scores) = n
  /\ \A i \in 0..(n - 1) : Cardinality(entriesFor(scores, i)) = 1

\* the recorded scores of five questions: three answered with 8, 6 and 4 in
\* some positions, the other two skipped
Answered864(scores) ==
  /\ OneEventEach(scores, 5)
  /\ Cardinality({k \in 1..5 : scores[k].skipped}) = 2
  /\ \A sc \in {80, 60, 40} :
       \E k \in 1..5 : ~scores[k].skipped /\ scores[k].score = sc

\* a step in which the mounted interview hands over a report
ReportStep == mounted /\ Len(reports') = Len(reports) + 1

\* C13: a 5-question interview in which three questions were answered with
\* scores 8, 6 and 4 and the other two skipped, whatever their positions, ends
\* with a report of overall_score 36, grade C and placement 'Not Ready'.
C13_ThreeAnswersOfFive ==
  [][(ReportStep /\ Len(questions) = 5 /\ Answered864(questionScores)) =>
       LET report == Last(reports').report
       IN  /\ report.overall_score = 36
           /\ report.grade = "C"
           /\ report.placement_ready = "Not Ready"]_vars

\* C13 as the code has it: the report is 'Not Ready' in every case. When the
\* last question was skipped, or the interview is ended with End Interview
\* after the last answer, overall_score is 36 and the grade is D, the band of
\* 36. When the last question was answered and the interview ends on its own,
\* the call does not see the last score: overall_score is 20, 24 or 28 (the
\* other two scores over five questions) and the grade is F.
C13_ThreeAnswersOfFive_Amended ==
  [][(ReportStep /\ Len(questions) = 5 /\ Answered864(questionScores)) =>
       LET report == Last(reports').report
           byTimer == Len(timers') < Len(timers)
           last == questionScores[CHOOSE k \in entriesFor(questionScores, 4) : TRUE]
       IN  /\ report.placement_ready = "Not Ready"
           /\ IF last.skipped \/ ~byTimer
              THEN report.overall_score = 36 /\ report.grade = "D"
              ELSE /\ 5 * report.overall_score = 180 - last.score
                   /\ report.overall_score \in {20, 24, 28}
                   /\ report.grade = "F"]_vars

\* three answers of 8, 6 and 4 and two skips have been reported with 36 and D
C13_Witness ==
  \E r \in Produced :
    /\ r.report.total_questions = 5
    /\ Answered864(r.allScores)
    /\ r.report.overall_score = 36
    /\ r.report.grade = "D"

\* all ten questions skipped once each, none answered
AllTenSkipped(scores) ==
  /\ OneEventEach(scores, 10)
  /\ \A k \in 1..10 : scores[k].skipped

\* C14: when all 10 questions of a 10-question interview are skipped and none
\* is answered, the report has overall_score 0, grade F, placement 'Not Ready',
\* and 'Skipped 10 question(s)' among its weaknesses.
C14_AllTenSkipped ==
  [][(ReportStep /\ Len(questions) = 10 /\ AllTenSkipped(questionScores)) =>
       LET report == Last(reports').report
       IN  /\ report.overall_score = 0
           /\ report.grade = "F"
           /\ report.placement_ready = "Not Ready"
           /\ \E k \in 1..Len(report.weaknesses) :
                report.weaknesses[k] = Message("Skipped {n} question(s)", "", 10)]_vars

\* the report of an interview of ten questions in which nothing was answered
C14_Witness ==
  \E r \in Produced :
    /\ r.report.total_questions = 10
    /\ r.report.questions_answered = 0
    /\ r.report.questions_skipped = 10
    /\ Len(r.questionScores) = 9

\* the fallback entries of the three feedback lists
Participated == Message("Participated in the interview", "", 0)
NoMajorWeakness == Message("No major weaknesses identified", "", 0)
KeepPractising == "Continue practicing to maintain your skills"

PractiseFluency == "Practice answering questions out loud to improve fluency"
TakeMockInterviews == "Consider taking mock interviews to build confidence"

\* C15: with an empty question set the report has overall_score 0, an empty
\* category_scores map, and strengths, weaknesses and improvement_suggestions
\* each consisting of only their fallback entry.
C15_EmptyQuestionSet ==
  \A r \in Produced :
    r.questions = <<>> =>
      /\ r.report.overall_score = 0
      /\ DOMAIN r.report.category_scores = {}
      /\ r.report.strengths = <<Participated>>
      /\ r.report.weaknesses = <<NoMajorWeakness>>
      /\ r.report.improvement_suggestions = <<KeepPractising>>

\* C15 as the code has it: with an empty question set overall_score is 0 and
\* improvement_suggestions never holds its fallback: it begins with the entry
\* for overall_score < 70 and ends with the entry for overall_score < 50. When
\* no answer or skip was recorded, category_scores is empty, strengths and
\* weaknesses each consist of only their fallback entry, and the suggestions
\* are those two entries; answers and skips recorded while the list is empty
\* form the one category 'general'.
C15_EmptyQuestionSet_Amended ==
  \A r \in Produced :
    r.questions = <<>> =>
      LET report == r.report
          suggestions == report.improvement_suggestions
      IN  /\ report.overall_score = 0
          /\ report.total_questions = 0
          /\ Head(suggestions) = PractiseFluency
          /\ Last(suggestions) = TakeMockInterviews
          /\ \A k \in 1..Len(suggestions) : suggestions[k] # KeepPractising
          /\ IF r.questionScores = <<>>
             THEN /\ DOMAIN report.category_scores = {}
                  /\ report.strengths = <<Participated>>
                  /\ report.weaknesses = <<NoMajorWeakness>>
                  /\ suggestions = <<PractiseFluency, TakeMockInterviews>>
             ELSE DOMAIN report.category_scores = {"general"}

\* endInterview has run with no question and no recorded score
C15_Witness ==
  \E r \in Produced :
    /\ r.questions = <<>>
    /\ r.questionScores = <<>>
    /\ r.report.overall_score = 0
    /\ Len(r.report.improvement_suggestions) = 2

\* the entries of a report that belong to a question of its list
inRange(r) == SelectSeq(r.allScores, LAMBDA e : e.idx >= 0 /\ e.idx < Len(r.questions))

\* C16: an answer or skip whose index is outside [0, total_questions) is
\* rejected: it adds nothing to the answered and skipped counts, to
\* overall_score or to category_scores of any report.
C16_OutOfRangeLeavesNoTrace ==
  \A r \in Produced :
    /\ r.report.questions_answered = answeredCount(inRange(r))
    /\ r.report.questions_skipped = skippedCount(inRange(r))
    /\ DOMAIN r.report.category_scores =
         {qTypeOf(inRange(r)[k].idx, r.questions) : k \in 1..Len(inRange(r))}
    /\ r.report.total_questions > 0 =>
         2 * Abs(r.report.overall_score * r.report.total_questions - sumScores(inRange(r)))
           <= r.report.total_questions

\* C17: a question record without text or without category is rejected when
\* the list is taken in, so the component never holds, no answer is scored
\* against, and no report is computed from, a question that lacks a category.
C17_MalformedQuestionRejected ==
  /\ \A i \in 1..Len(questions) :
       questions[i].question_type # "" /\ questions[i].question_text # ""
  /\ currentQuestion # <<>> => currentQuestion[1].question_type # ""
  /\ \A r \in Produced : \A i \in 1..Len(r.questions) : r.questions[i].question_type # ""

\* the category of the question at a position of the list, 'general' for a
\* question that names none
categoryAt(qs, i) == IF qs[i].question_type = "" THEN "general" ELSE qs[i].question_type

\* C18: the keys of category_scores are exactly the categories of the
\* questions of the list: no category of a question is missing, and no key is
\* the category of no question.
C18_KeysAreTheCategories ==
  \A r \in Produced :
    DOMAIN r.report.category_scores =
      {categoryAt(r.questions, i) : i \in 1..Len(r.questions)}

\* the entries of a report whose question has the category, an entry without a
\* question counting as 'general'
entriesIn(r, category) ==
  SelectSeq(r.allScores,
    LAMBDA e : IF e.idx + 1 \in 1..Len(r.questions)
               THEN categoryAt(r.questions, e.idx + 1) = category
               ELSE category = "general")

\* C19: in every report, whatever events led to it, each value of
\* category_scores is an integer from 0 to 100 and equals round(10 * mean) of
\* the scores the report holds for the questions of that category.
C19_CategoryScoreIsTheMean ==
  \A r \in Produced :
    \A category \in DOMAIN r.report.category_scores :
      LET value == r.report.category_scores[category]
          scores == entriesIn(r, category)
      IN  /\ value \in 0..100
          /\ scores # <<>>
          /\ 2 * Abs(value * Len(scores) - sumScores(scores)) <= Len(scores)

\* a report with two categories whose means differ, one of them over a
\* question answered twice
C19_Witness ==
  \E r \in Produced :
    /\ r.questions = <<QTechnical, QHr>>
    /\ Len(r.allScores) = 3
    /\ r.report.category_scores["technical"] = 75
    /\ r.report.category_scores["hr"] = 0

\* C20: strengths, weaknesses and improvement_suggestions of every report are
\* non-empty, and the participation strength, the weakness 'No major weaknesses
\* identified' and the suggestion to keep practising appear only as the single
\* entry of their list.
C20_FallbacksStandAlone ==
  \A r \in Produced :
    LET has(list, entry) == \E k \in 1..Len(list) : list[k] = entry
    IN  /\ r.report.strengths # <<>>
        /\ r.report.weaknesses # <<>>
        /\ r.report.improvement_suggestions # <<>>
        /\ has(r.report.strengths, Participated) => r.report.strengths = <<Participated>>
        /\ has(r.report.weaknesses, NoMajorWeakness) => r.report.weaknesses = <<NoMajorWeakness>>
        /\ has(r.report.improvement_suggestions, KeepPractising) =>
             r.report.improvement_suggestions = <<KeepPractising>>

\* a report with a category strength, no weakness of its own and no
\* suggestion of its own: two fallbacks beside a list that needs none
C20_Witness ==
  \E r \in Produced :
    /\ r.report.weaknesses = <<NoMajorWeakness>>
    /\ r.report.improvement_suggestions = <<KeepPractising>>
    /\ Len(r.report.strengths) = 2
    /\ r.report.strengths[2] = Message("Answered all questions", "", 0)

AnsweredAll == Message("Answered all questions", "", 0)

\* the feedback list holds the entry
holds(list, entry) == \E k \in 1..Len(list) : list[k] = entry

\* every question of the report's list has an answer and nothing is skipped
everyQuestionAnswered(r) ==
  /\ \A i \in 0..(Len(r.questions) - 1) :
       \E k \in 1..Len(r.allScores) : r.allScores[k].idx = i /\ ~r.allScores[k].skipped
  /\ \A k \in 1..Len(r.allScores) : ~r.allScores[k].skipped

\* C21: the strength 'Answered all questions' is in the report exactly when
\* every question was answered (none skipped, none left unscored) and
\* overall_score >= 60; the weakness 'Skipped n question(s)' is in the report
\* exactly when n > 0 questions were skipped; so no report holds both.
C21_AnsweredAllOrSkipped ==
  \A r \in Produced :
    LET n == r.report.questions_skipped
        skippedLine == Message("Skipped {n} question(s)", "", n)
    IN  /\ holds(r.report.strengths, AnsweredAll)
             <=> (everyQuestionAnswered(r) /\ r.report.overall_score >= 60)
        /\ holds(r.report.weaknesses, skippedLine) <=> n > 0
        /\ ~(holds(r.report.strengths, AnsweredAll) /\ holds(r.report.weaknesses, skippedLine))

ReviewTechnical == "Review core technical concepts and practice coding problems"
PrepareBehavioural == "Prepare STAR method responses for behavioral questions"
AttemptAll == "Try to attempt all questions instead of skipping"

\* one entry when its condition holds, none otherwise
when(condition, entry) == IF condition THEN <<entry>> ELSE <<>>

\* C22: improvement_suggestions holds, in this order, exactly the entries whose
\* condition holds: overall_score < 70 (practise fluency), the category
\* technical present and below 60, the category hr present and below 60, some
\* question skipped, overall_score < 50 (mock interviews); the generic fallback
\* is there exactly when none of the five conditions holds.
C22_SuggestionsInOrder ==
  \A r \in Produced :
    LET report == r.report
        scores == report.category_scores
        below60(category) == category \in DOMAIN scores /\ scores[category] < 60
        triggered ==
             when(report.overall_score < 70, PractiseFluency)
          \o when(below60("technical"), ReviewTechnical)
          \o when(below60("hr"), PrepareBehavioural)
          \o when(report.questions_skipped > 0, AttemptAll)
          \o when(report.overall_score < 50, TakeMockInterviews)
    IN  /\ triggered # <<>> => report.improvement_suggestions = triggered
        /\ triggered = <<>> => report.improvement_suggestions = <<KeepPractising>>
        /\ holds(report.improvement_suggestions, KeepPractising) <=> triggered = <<>>

\* a report in which all five conditions hold although a question was answered
C22_Witness ==
  \E r \in Produced :
    /\ Len(r.report.improvement_suggestions) = 5
    /\ r.report.questions_answered > 0
    /\ r.report.overall_score > 0

\* every skipped entry of a sequence of scores has score 0
skipsScoreZero(scores) == \A k \in 1..Len(scores) : scores[k].skipped => scores[k].score = 0

\* the answered entries of a sequence of scores
answeredOnly(scores) == SelectSeq(scores, LAMBDA e : ~e.skipped)

\* C23: a skip always scores 0: in every reachable state every entry with
\* skipped = true, recorded by Skip Question or synthesized by endInterview,
\* has score 0, and the overall and category scores of every report are those
\* of the sums over the answered entries alone.
C23_SkipScoresZero ==
  /\ skipsScoreZero(questionScores)
  /\ \A k \in 1..Len(timers) : skipsScoreZero(timers[k].questionScores)
  /\ \A r \in Produced :
       /\ skipsScoreZero(r.allScores)
       /\ r.report.total_questions > 0 =>
            2 * Abs(r.report.overall_score * r.report.total_questions
                      - sumScores(answeredOnly(r.allScores))) <= r.report.total_questions
       /\ \A category \in DOMAIN r.report.category_scores :
            2 * Abs(r.report.category_scores[category] * Len(entriesIn(r, category))
                      - sumScores(answeredOnly(entriesIn(r, category))))
              <= Len(entriesIn(r, category))

\* a report over an answer, a recorded skip and a synthesized skip
C23_Witness ==
  \E r \in Produced :
    /\ \E k \in 1..Len(r.questionScores) : r.questionScores[k].skipped
    /\ Len(r.allScores) > Len(r.questionScores)
    /\ r.report.questions_answered = 1
    /\ r.report.overall_score > 0

\* C24: Completed is terminal: once a report has been produced (the question
\* list having been delivered), no further question is asked or spoken and no
\* further score or response is recorded, also when a moveToNextQuestion
\* timer set by an earlier skip or answer fires afterwards.
C24_CompletedIsTerminal ==
  [][(reports # <<>> /\ fetchState = "done") =>
       /\ utterances' <= utterances
       /\ questionScores' = questionScores
       /\ responses' = responses]_vars

\* C25: Asking comes before Listening: no record, stop, skip or timer event
\* leads to a state in which the recording is active (isRecording) while the
\* question is still being spoken (isAISpeaking).
C25_NoRecordingWhileSpeaking ==
  [][(fetchState' = fetchState /\ ~(isRecording /\ isAISpeaking)) =>
       ~(isRecording' /\ isAISpeaking')]_vars

\* C26: with a non-empty question list, a candidate who answers (with a
\* non-blank transcript) or skips each question as it is asked, every timer
\* firing, eventually gets a report, built over the whole list.
C26_SessionCompletes ==
  <>(\E r \in Produced : r.questions # <<>> /\ r.report.total_questions = Len(r.questions))

\* the timer of the third question has ended an interview of three questions
\* with two answers seen
C26_Witness ==
  \E r \in Produced :
    /\ r.questions = ThreeQuestions
    /\ Len(r.questionScores) = 2
    /\ r.report.questions_answered = 2

\* C27: the total_questions of a report is the number of questions the
\* question source has delivered, however the fetch interleaves with Skip and
\* End Interview clicks: once the list has been delivered, no report is built
\* from the empty list the component started with.
C27_TotalIsTheDeliveredList ==
  [][(ReportStep /\ fetchState = "done") =>
       Last(reports').report.total_questions = Len(questions)]_vars

\* C28: with a non-empty question list of length N, questionNumber stays
\* within 1..N, and the questions asked form a prefix of the list without a
\* gap: question k + 1 is asked only after question k has been asked, also when
\* several timers of the same question fire.
C28_QuestionsAskedInSequence ==
  /\ (mounted /\ questions # <<>>) => questionNumber \in 1..Len(questions)
  /\ \A k \in asked : k = 1 \/ k - 1 \in asked

\* two skips of question 1 and both their timers: question 2 asked twice,
\* question 3 not yet
C28_Witness ==
  /\ mounted /\ Len(questions) = 5
  /\ Len(questionScores) = 2
  /\ \A k \in 1..2 : questionScores[k].idx = 0
  /\ timers = <<>>
  /\ questionNumber = 2
  /\ asked = {1, 2}

\* C29: in every report with at least one category, overall_score lies
\* between the smallest and the largest value of category_scores.
C29_OverallBetweenCategories ==
  \A r \in Produced :
    LET scores == r.report.category_scores
    IN  DOMAIN scores # {} =>
          /\ \E category \in DOMAIN scores : scores[category] <= r.report.overall_score
          /\ \E category \in DOMAIN scores : scores[category] >= r.report.overall_score

\* C30: the lower clamp of 1 never binds: for every answer of 5 trimmed
\* characters or more the weighted sum is at least 1.23, so the score is at
\* least 1.2, and evaluateAnswer never returns a score strictly between 0 and
\* 1.2.
C30_LowerClampNeverBinds ==
  evalCall.pc = "done" =>
    /\ ~trivialAnswer(evalCall.answer) =>
         /\ formulaNum(evalCall.answer, evalCall.question)
              >= 123 * formulaDen(evalCall.answer, evalCall.question)
         /\ evalCall.result >= 12
    /\ evalCall.result = 0 \/ evalCall.result >= 12

\* the smallest weighted sum: one word, no marker, none of the keywords of the
\* question, scored 1.2
C30_Witness ==
  /\ evalCall.pc = "done"
  /\ ~trivialAnswer(evalCall.answer)
  /\ evalCall.question = <<QTechnical>>
  /\ formulaNum(evalCall.answer, evalCall.question)
       = 123 * formulaDen(evalCall.answer, evalCall.question)
  /\ evalCall.result = 12

====
